---- MODULE Spec2Model ----
(***************************************************************************)
(* KT-assistant: the knowledge model (app/models/schemas.py), the          *)
(* completion client (app/services/ai_engine.py), the persistence and      *)
(* vector gateways (app/services/db_service.py, vector_service.py) and the *)
(* Streamlit script that wires them together (ui/streamlit.py).            *)
(***************************************************************************)
EXTENDS Integers, Sequences, FiniteSets, TLC

VARIABLES
    now,          \* wall clock in hours (datetime.now())
    ss,           \* st.session_state of every client (browser session)
    dbSessions,   \* Supabase table "sessions": id -> row
    dbMessages,   \* Supabase table "messages": session id -> rows in insertion order
    vectors,      \* Qdrant collection: point id -> point
    usedIds,      \* session ids uuid4 has handed out so far
    upsertCalls,  \* number of vector_service.upsert_topic_summary calls per (session id, topic name)
    reached,      \* (session id, topic id) pairs that ever received a score at or above the threshold
    queryCalls,   \* query vectors handed to vector_service.search_kt so far
    lastTurn,     \* what the last process_knowledge call saw and did
    gc,           \* one call of AIEngine.get_completion in progress
    op            \* one gateway operation run on its own (cleanup / purge)

vars == <<now, ss, dbSessions, dbMessages, vectors, usedIds, upsertCalls,
          reached, queryCalls, lastTurn, gc, op>>

----------------------------------------------------------------------------
(* Bounds of the model *)

MaxTopics == 2      \* topics of a session in the knowledge-update specification
MaxTime == 8        \* the clock stops here
MaxMessages == 5    \* rows of table "messages" one session may reach
MaxStored == 3      \* session ids the stores hold when a gateway operation runs on its own
MaxItems == 2       \* items of a list the provider puts under a knowledge key
MaxBytes == 3       \* bytes of an uploaded file

(* Program constants *)

KT_CONFIDENCE_THRESHOLD == 80
EMBEDDING_DIM == 3072
SESSION_TTL_HOURS == 6
max_retries == 3
initial_retry_delay_ms == 2000      \* retry_delay = 2 (seconds)
pacing_delay_ms == 500              \* time.sleep(0.5)
limit == 2       \* search_kt(query_vec, limit=2)

Clients == {"c1", "c2"}
SessionIds == {"a", "b"}

----------------------------------------------------------------------------
(* JSON values as the provider sends them and pydantic sees them *)

Null == [kind |-> "null"]
Str(s) == [kind |-> "str", s |-> s]
List(items) == [kind |-> "list", items |-> items]

RECURSIVE JoinLines(_)
JoinLines(lines) ==
    IF Len(lines) = 0 THEN ""
    ELSE IF Len(lines) = 1 THEN lines[1]
    ELSE lines[1] \o "\n" \o JoinLines(Tail(lines))

\* mutant of list_to_str: a string taken for a list of one item
list_to_strOfStrings(v) ==
    IF v.kind = "list"
    THEN Str(JoinLines([i \in 1..Len(v.items) |-> "- " \o v.items[i]]))
    ELSE IF v.kind = "str" THEN Str("- " \o v.s)
    ELSE v

\* TopicKnowledge.list_to_str: "\n".join([f"- {item}" for item in v]) for a list
list_to_str(v) ==
    IF v.kind = "list"
    THEN Str(JoinLines([i \in 1..Len(v.items) |-> "- " \o v.items[i]]))
    ELSE v

KnowledgeFields == {"definition", "purpose", "inputs_outputs", "dependencies",
                    "failure_cases", "edge_cases", "operational_steps",
                    "monitoring_deployment"}

\* Field(None, alias=...): the key pydantic reads a field from
Alias(f) ==
    CASE f = "inputs_outputs" -> "inputs / outputs"
      [] f = "monitoring_deployment" -> "monitoring / deployment"
      [] OTHER -> f

\* TopicKnowledge(**data): every field read by its alias, passed through the
\* "before" validator; a field whose key is absent keeps its default None
TopicKnowledge(data) ==
    [f \in KnowledgeFields |->
        IF Alias(f) \in DOMAIN data THEN list_to_str(data[Alias(f)]) ELSE Null]

\* TopicKnowledge.model_dump(): keyed by field name
model_dump(knowledge) == [f \in KnowledgeFields |-> knowledge[f]]

\* json.dumps(topic.knowledge.model_dump(), indent=2): the text of that object
SummaryText(knowledge) == [json |-> model_dump(knowledge)]

EmptyKnowledge == TopicKnowledge(<<>>)

\* Topic(id=..., name=..., missing_sections=...): score 0, not complete
Topic(id, name, missing) ==
    [id |-> id, name |-> name, confidence_score |-> 0, is_complete |-> FALSE,
     knowledge |-> EmptyKnowledge, missing_sections |-> missing]

\* initial_topics of a fresh session
InitialTopics ==
    << Topic("t1", "System Overview", <<"definition", "purpose">>),
       Topic("t2", "Architecture & Data Flow",
             <<"inputs / outputs", "monitoring / deployment">>),
       Topic("t3", "Operations & Reliability",
             <<"failure cases", "edge cases", "operational steps">>) >>

\* Session(id=..., topics=...)
Session(id, topics, t) ==
    [id |-> id, updated_at |-> t, topics |-> topics, overall_confidence |-> 0,
     status |-> "in_progress"]

NoSession == [id |-> "", updated_at |-> 0, topics |-> <<>>, overall_confidence |-> 0,
              status |-> "none"]

----------------------------------------------------------------------------
(* Embeddings *)

\* [0.0] * settings.EMBEDDING_DIM
ZeroVector == [dim |-> EMBEDDING_DIM, components |-> "all zero"]
\* response.data[0]['embedding'] of a successful request
ModelVector == [dim |-> EMBEDDING_DIM, components |-> "from model"]

\* AIEngine.get_embedding: the provider's vector, the zero vector on any failure
get_embedding(ok) == IF ok THEN ModelVector ELSE ZeroVector

----------------------------------------------------------------------------
(* What the completion provider may answer to the extraction prompt *)

NoText == [kind |-> "none"]          \* get_completion returned None
EmptyText == [kind |-> "empty"]      \* the provider returned ""
Garbage == [kind |-> "garbage"]      \* text json.loads rejects
JsonText(value) == [kind |-> "json", value |-> value]

KnowledgeA == "definition" :> Str("billing service")
KnowledgeB == ("definition" :> Str("billing service"))
              @@ ("inputs / outputs" :> List(<<"orders", "invoices">>))

UpdateObjects ==
    { [knowledge |-> KnowledgeA, confidence_score |-> 70,
       missing_sections |-> <<"purpose">>],
      [knowledge |-> KnowledgeB, confidence_score |-> 85,
       missing_sections |-> <<>>],
      ("knowledge" :> KnowledgeB) @@ ("confidence_score" :> 80),
      \* nothing checks the range of the score the provider sends
      [knowledge |-> KnowledgeA, confidence_score |-> -5,
       missing_sections |-> <<"purpose">>],
      <<>> }

\* the JSON objects keyed by some of the given topic ids that give every key the
\* same update object
Mappings(ids, objects) ==
    { [k \in keys |-> o] : keys \in SUBSET ids, o \in objects }

Responses(ids, objects) ==
    {NoText, EmptyText, Garbage} \cup { JsonText(m) : m \in Mappings(ids, objects) }

\* AIEngine.multi_topic_validate_and_score, from the completion text on
multi_topic_validate_and_score(response_str) ==
    IF response_str.kind \in {"none", "empty"} THEN <<>>
    ELSE IF response_str.kind = "garbage" THEN <<>>
    ELSE response_str.value

----------------------------------------------------------------------------
(* process_knowledge *)

\* dict.get(key, default)
Get(d, key, default) == IF key \in DOMAIN d THEN d[key] ELSE default

\* lines 29-31: knowledge, score and missing sections overwritten from data
ApplyUpdate(topic, data) ==
    [topic EXCEPT
        !.knowledge = TopicKnowledge(Get(data, "knowledge", <<>>)),
        !.confidence_score = Get(data, "confidence_score", 0),
        !.missing_sections = Get(data, "missing_sections", <<>>)]

\* mutant of NeedsIndexing: the "if not topic.is_complete" test forgotten
NeedsIndexingEveryCrossing(topic) ==
    topic.confidence_score >= KT_CONFIDENCE_THRESHOLD

\* lines 36-37: the topic is indexed when its score is at the threshold and it is
\* not complete yet
NeedsIndexing(topic) ==
    /\ topic.confidence_score >= KT_CONFIDENCE_THRESHOLD
    /\ ~topic.is_complete

\* mutant of MarkComplete: the threshold itself does not count
MarkCompleteAboveThreshold(topic) ==
    IF topic.confidence_score > KT_CONFIDENCE_THRESHOLD
    THEN IF ~topic.is_complete THEN [topic EXCEPT !.is_complete = TRUE] ELSE topic
    ELSE topic

\* mutant of MarkComplete: the flag recomputed from the score on every update
MarkCompleteFromScore(topic) ==
    [topic EXCEPT !.is_complete = (topic.confidence_score >= KT_CONFIDENCE_THRESHOLD)]

\* lines 36-38: the completion flag after the update
MarkComplete(topic) ==
    IF topic.confidence_score >= KT_CONFIDENCE_THRESHOLD
    THEN IF ~topic.is_complete THEN [topic EXCEPT !.is_complete = TRUE] ELSE topic
    ELSE topic

\* mutant of UpdateTopic: all_results.get(topic.id, {}) in place of the membership test
UpdateTopicWithDefault(topic, all_results) ==
    MarkComplete(ApplyUpdate(topic, Get(all_results, topic.id, <<>>)))

\* the loop body for one topic, without the indexing side effects
UpdateTopic(topic, all_results) ==
    IF topic.id \in DOMAIN all_results
    THEN MarkComplete(ApplyUpdate(topic, all_results[topic.id]))
    ELSE topic

\* positions of the topics the loop indexes
IndexedPositions(topics, all_results) ==
    { i \in 1..Len(topics) :
        /\ topics[i].id \in DOMAIN all_results
        /\ NeedsIndexing(ApplyUpdate(topics[i], all_results[topics[i].id])) }

RECURSIVE SumScores(_)
SumScores(topics) ==
    IF Len(topics) = 0 THEN 0
    ELSE topics[1].confidence_score + SumScores(Tail(topics))

\* int(x / y) of Python: true division, then truncation toward zero
IntOfQuotient(x, y) == IF x >= 0 THEN x \div y ELSE -((-x) \div y)

\* line 49
OverallConfidence(topics) == IntOfQuotient(SumScores(topics), Len(topics))

\* mutant of PointId: the id derived from the topic name alone
PointIdFromTopicName(session_id, topic_name) == topic_name

\* uuid.uuid5(NAMESPACE_DNS, f"{session_id}_{topic_name}")
PointId(session_id, topic_name) == session_id \o "_" \o topic_name

\* VectorService.upsert_topic_summary on a reachable store
UpsertPoint(store, session_id, topic_name, summary, embedding) ==
    (PointId(session_id, topic_name) :>
        [vector |-> embedding,
         payload |-> [session_id |-> session_id, topic |-> topic_name,
                      summary |-> summary]])
    @@ store

\* lines 39-47 for the topics at positions 1..n, in loop order
RECURSIVE IndexTopics(_, _, _, _, _, _, _)
IndexTopics(store, session_id, topics, positions, embOk, vecOk, n) ==
    IF n = 0 THEN store
    ELSE LET before == IndexTopics(store, session_id, topics, positions,
                                   embOk, vecOk, n - 1)
         IN  IF n \in positions /\ vecOk[n]
             THEN UpsertPoint(before, session_id, topics[n].name,
                              SummaryText(topics[n].knowledge),
                              get_embedding(embOk[n]))
             ELSE before

\* DBService.save_session: the row written by the upsert
SessionRow(session) ==
    [overall_confidence |-> session.overall_confidence, status |-> session.status,
     updated_at |-> session.updated_at, topics |-> session.topics]

\* mutant of save_session: the row written although the request failed
save_sessionDespiteFailure(db, session, ok) ==
    (session.id :> SessionRow(session)) @@ db

save_session(db, session, ok) ==
    IF ok THEN (session.id :> SessionRow(session)) @@ db ELSE db

Bump(counts, key) ==
    IF key \in DOMAIN counts THEN [counts EXCEPT ![key] = @ + 1]
    ELSE (key :> 1) @@ counts

RECURSIVE BumpAll(_, _, _, _, _)
BumpAll(counts, session_id, topics, positions, n) ==
    IF n = 0 THEN counts
    ELSE LET before == BumpAll(counts, session_id, topics, positions, n - 1)
         IN  IF n \in positions THEN Bump(before, <<session_id, topics[n].name>>)
             ELSE before

\* process_knowledge(text) run by client c whose session_state is `state` when the
\* call starts; response_str is what get_completion gives the extraction prompt
process_knowledge(c, state, response_str, embOk, vecOk, dbOk) ==
    LET all_results == multi_topic_validate_and_score(response_str)
        old == state.session
        topics == [i \in 1..Len(old.topics) |-> UpdateTopic(old.topics[i], all_results)]
        positions == IndexedPositions(old.topics, all_results)
        session == [old EXCEPT !.topics = topics,
                               !.overall_confidence = OverallConfidence(topics),
                               !.updated_at = now]
    IN  /\ ss' = [ss EXCEPT ![c] = [state EXCEPT !.session = session]]
        /\ vectors' = IndexTopics(vectors, state.session_id, topics, positions,
                                  embOk, vecOk, Len(topics))
        /\ upsertCalls' = BumpAll(upsertCalls, state.session_id, topics, positions,
                                  Len(topics))
        /\ reached' = reached \cup
              { <<state.session_id, topics[i].id>> : i \in
                  { j \in 1..Len(topics) :
                      /\ topics[j].id \in DOMAIN all_results
                      /\ topics[j].confidence_score >= KT_CONFIDENCE_THRESHOLD } }
        /\ dbSessions' = save_session(dbSessions, session, dbOk)
        /\ lastTurn' = [response |-> response_str.kind]

----------------------------------------------------------------------------
(* st.session_state of a client *)

\* a browser session before its first script run
FreshState ==
    [pc |-> "start", session_id |-> "", session |-> NoSession,
     expired_ids |-> {}, active_ids |-> {}, zombie_count |-> 0,
     qdrant_deleted_count |-> 0]

\* no gateway operation is being observed on its own
OpIdle == [pc |-> "idle", hours |-> SESSION_TTL_HOURS, failed |-> FALSE,
           sessions0 |-> <<>>, messages0 |-> <<>>, vectors0 |-> <<>>]

\* the observed operation met a storage failure
NoteFailure(ok) == IF op.pc = "idle" \/ ok THEN op ELSE [op EXCEPT !.failed = TRUE]

\* no get_completion call in progress
NoFormat == [type |-> "none"]
NoResult == [kind |-> "none"]
GcIdle ==
    [pc |-> "idle", model |-> "", response_format |-> NoFormat, attempt |-> 0,
     retry_delay |-> 0, trace |-> <<>>, result |-> NoResult]

TopicIdsOf(session) == { session.topics[i].id : i \in 1..Len(session.topics) }

\* the vector gateway's search box: lines 337-344
Search(c) ==
    /\ ss[c].pc = "chat"
    /\ \E i \in 1..Len(ss[c].session.topics) : ss[c].session.topics[i].is_complete
    /\ \E embOk \in BOOLEAN :
          queryCalls' = queryCalls \cup {get_embedding(embOk)}
    /\ UNCHANGED <<now, ss, dbSessions, dbMessages, vectors, usedIds, upsertCalls,
                   reached, lastTurn, gc, op>>

----------------------------------------------------------------------------
(* Knowledge updates on one session: process_knowledge called again and again, *)
(* with the relational store and the vector store reachable                    *)

TopicAt(i) ==
    IF i <= Len(InitialTopics) THEN InitialTopics[i]
    ELSE Topic("t" \o ToString(i), "Topic " \o ToString(i), <<>>)

InitKnowledge ==
    /\ now = 0
    /\ \E n \in 1..MaxTopics :
          LET session == Session("a", [i \in 1..n |-> TopicAt(i)], 0)
          IN  /\ ss = [c \in Clients |->
                        IF c = "c1"
                        THEN [FreshState EXCEPT !.pc = "chat", !.session_id = "a",
                                                !.session = session]
                        ELSE FreshState]
              /\ dbSessions = save_session(<<>>, session, TRUE)
    /\ dbMessages = [id \in SessionIds |-> <<>>]
    /\ vectors = <<>>
    /\ usedIds = {"a"}
    /\ upsertCalls = <<>>
    /\ reached = {}
    /\ queryCalls = {}
    /\ lastTurn = [response |-> ""]
    /\ gc = GcIdle
    /\ op = OpIdle

KnowledgeUpdate(c) ==
    /\ ss[c].pc = "chat"
    /\ \E response_str \in Responses(TopicIdsOf(ss[c].session), UpdateObjects) :
       \E dbOk \in {TRUE} :
          LET positions == IndexedPositions(ss[c].session.topics,
                               multi_topic_validate_and_score(response_str))
          IN  \E embOk \in [positions -> BOOLEAN], vecOk \in [positions -> {TRUE}] :
                 process_knowledge(c, ss[c], response_str, embOk, vecOk, dbOk)
    /\ UNCHANGED <<now, dbMessages, usedIds, queryCalls, gc, op>>

NextKnowledge ==
    \/ \E c \in Clients : KnowledgeUpdate(c)

SpecKnowledge == InitKnowledge /\ [][NextKnowledge]_vars

\* the same session with its search box in use
NextKnowledgeSearch ==
    \/ \E c \in Clients : KnowledgeUpdate(c)
    \/ \E c \in Clients : Search(c)

SpecKnowledgeSearch == InitKnowledge /\ [][NextKnowledgeSearch]_vars

----------------------------------------------------------------------------
(* Properties of the knowledge update *)

TopicsOf(c) == ss[c].session.topics
Holders == { c \in Clients : ss[c].pc = "chat" }
UpsertCount(session_id, topic_name) == Get(upsertCalls, <<session_id, topic_name>>, 0)
FailedResponses == {"none", "empty", "garbage"}

\* C1: once a topic's completion flag is true, it is true after every later
\* knowledge update of that session, whatever score the update carries.
C1_CompletionFlagMonotonic ==
    [][\A c \in Clients :
          (ss[c].pc = "chat" /\ ss'[c].pc = "chat"
             /\ ss'[c].session_id = ss[c].session_id)
          => \A i \in 1..Len(TopicsOf(c)) :
                TopicsOf(c)[i].is_complete => ss'[c].session.topics[i].is_complete]_vars

\* a complete topic whose score has fallen below the threshold again
C1_Witness ==
    \E c \in Holders : \E i \in 1..Len(TopicsOf(c)) :
        /\ TopicsOf(c)[i].is_complete
        /\ TopicsOf(c)[i].confidence_score < KT_CONFIDENCE_THRESHOLD

\* C2: process_knowledge has called the vector upsert for a topic exactly once if
\* some update of the topic has carried a score at or above the threshold, and never
\* otherwise: the call is made by the first such update and by no later one.
C2_IndexedExactlyOnce ==
    \A c \in Holders : \A i \in 1..Len(TopicsOf(c)) :
        UpsertCount(ss[c].session_id, TopicsOf(c)[i].name)
            = IF <<ss[c].session_id, TopicsOf(c)[i].id>> \in reached THEN 1 ELSE 0

\* an indexed topic after a later update has carried a score below the threshold
C2_Witness ==
    \E c \in Holders : \E i \in 1..Len(TopicsOf(c)) :
        /\ UpsertCount(ss[c].session_id, TopicsOf(c)[i].name) = 1
        /\ <<ss[c].session_id, TopicsOf(c)[i].id>> \in reached
        /\ TopicsOf(c)[i].confidence_score < KT_CONFIDENCE_THRESHOLD
        /\ lastTurn.response = "json"

\* C3: after every call of process_knowledge the session's aggregate confidence is
\* the floor of the arithmetic mean of its topics' confidence scores, for every
\* number of topics from one upward.
C3_AggregateIsFloorOfMean ==
    \A c \in Holders :
        /\ Len(TopicsOf(c)) >= 1
        /\ ss[c].session.overall_confidence
              = SumScores(TopicsOf(c)) \div Len(TopicsOf(c))

\* C6: a turn whose completion gave no text, or text that is not JSON, yields the
\* empty mapping, leaves every topic of the session as it was and makes no vector
\* upsert.
C6_FailedExtractionChangesNothing ==
    [][(lastTurn' # lastTurn /\ lastTurn'.response \in FailedResponses)
          => /\ \A r \in {NoText, EmptyText, Garbage} :
                   DOMAIN multi_topic_validate_and_score(r) = {}
             /\ \A c \in Clients : ss'[c].session.topics = ss[c].session.topics
             /\ upsertCalls' = upsertCalls
             /\ vectors' = vectors]_vars

\* an unparseable answer arrived for a session that already holds knowledge
C6_Witness ==
    /\ lastTurn.response = "garbage"
    /\ \E c \in Holders : \E i \in 1..Len(TopicsOf(c)) :
          /\ TopicsOf(c)[i].confidence_score = 70
          /\ TopicsOf(c)[i].knowledge # EmptyKnowledge

\* C7: no point of the vector index carries the all-zero vector get_embedding
\* returns on failure, and no search is run with the all-zero vector as its query.
C7_ZeroVectorNeverUsed ==
    /\ \A p \in DOMAIN vectors : vectors[p].vector # ZeroVector
    /\ ZeroVector \notin queryCalls

----------------------------------------------------------------------------
(* The persistence gateway and the vector gateway *)

\* mutant of IsExpired: .lte in place of .lt
IsExpiredOrAtLimit(row, threshold) == row.updated_at <= threshold

\* .lt("updated_at", threshold.isoformat())
IsExpired(row, threshold) == row.updated_at < threshold

\* the ids the select of cleanup_expired_sessions returns
ExpiredIds(sessions, t, hours) ==
    { id \in DOMAIN sessions : IsExpired(sessions[id], t - hours) }

\* delete from "sessions" of the rows with the given ids
DeleteSessions(sessions, ids) == [id \in DOMAIN sessions \ ids |-> sessions[id]]

\* REFERENCES sessions(id) ON DELETE CASCADE: the messages of deleted sessions go
CascadeMessages(messages, ids) ==
    [id \in DOMAIN messages |-> IF id \in ids THEN <<>> ELSE messages[id]]

\* DBService.save_message: an insert, refused when the session row is not there
save_message(messages, sessions, session_id, role, ok) ==
    IF ok /\ session_id \in DOMAIN sessions
    THEN [messages EXCEPT ![session_id] = Append(@, role)]
    ELSE messages

\* mutant of IsZombie: "must" in place of "must_not"
IsZombieInverted(point, active_ids) == point.payload.session_id \in active_ids

\* zombie_filter: must_not session_id MatchAny(active_ids)
IsZombie(point, active_ids) == point.payload.session_id \notin active_ids

Zombies(store, active_ids) == { p \in DOMAIN store : IsZombie(store[p], active_ids) }

DeletePoints(store, points) == [p \in DOMAIN store \ points |-> store[p]]

\* VectorService.delete_session_vectors: filter session_id = the given id
SessionPoints(store, session_id) ==
    { p \in DOMAIN store : store[p].payload.session_id = session_id }

----------------------------------------------------------------------------
(* The maintenance sweep of a script run without "cleanup_done": lines 62-75 *)

Others == <<usedIds, upsertCalls, reached, queryCalls, lastTurn, gc>>

\* cleanup_expired_sessions, step 1: the select of the expired ids
CleanupSelect(c, DbOk) ==
    /\ ss[c].pc = "start"
    /\ \E ok \in DbOk :
          LET ids == IF ok THEN ExpiredIds(dbSessions, now, op.hours) ELSE {}
          IN  /\ ss' = [ss EXCEPT ![c].expired_ids = ids,
                                  ![c].pc = IF ids # {} THEN "cleanup_delete"
                                            ELSE "scan"]
              /\ op' = NoteFailure(ok)
    /\ UNCHANGED <<now, dbSessions, dbMessages, vectors>>
    /\ UNCHANGED Others

\* cleanup_expired_sessions, step 2: the batch delete; a failure returns []
CleanupDelete(c, DbOk) ==
    /\ ss[c].pc = "cleanup_delete"
    /\ \E ok \in DbOk :
          /\ dbSessions' = IF ok THEN DeleteSessions(dbSessions, ss[c].expired_ids)
                           ELSE dbSessions
          /\ dbMessages' = IF ok THEN CascadeMessages(dbMessages, ss[c].expired_ids)
                           ELSE dbMessages
          /\ ss' = [ss EXCEPT ![c].expired_ids = IF ok THEN @ ELSE {},
                              ![c].pc = "scan"]
          /\ op' = NoteFailure(ok)
    /\ UNCHANGED <<now, vectors>>
    /\ UNCHANGED Others

\* get_all_active_session_ids
ScanActiveIds(c, DbOk) ==
    /\ ss[c].pc = "scan"
    /\ \E ok \in DbOk :
          /\ ss' = [ss EXCEPT ![c].active_ids = IF ok THEN DOMAIN dbSessions ELSE {},
                              ![c].pc = "purge_count"]
          /\ op' = NoteFailure(ok)
    /\ UNCHANGED <<now, dbSessions, dbMessages, vectors>>
    /\ UNCHANGED Others

\* purge_zombie_vectors, step 1: the exact count under the zombie filter
PurgeCount(c, VecOk) ==
    /\ ss[c].pc = "purge_count"
    /\ \E ok \in VecOk :
          LET n == IF ok THEN Cardinality(Zombies(vectors, ss[c].active_ids)) ELSE 0
          IN  /\ ss' = [ss EXCEPT ![c].zombie_count = n,
                                  ![c].qdrant_deleted_count = n,
                                  ![c].pc = IF n > 0 THEN "purge_delete" ELSE "report"]
              /\ op' = NoteFailure(ok)
    /\ UNCHANGED <<now, dbSessions, dbMessages, vectors>>
    /\ UNCHANGED Others

\* purge_zombie_vectors, step 2: the delete under the same filter; a failure
\* returns 0
PurgeDelete(c, VecOk) ==
    /\ ss[c].pc = "purge_delete"
    /\ \E ok \in VecOk :
          /\ vectors' = IF ok
                        THEN DeletePoints(vectors, Zombies(vectors, ss[c].active_ids))
                        ELSE vectors
          /\ ss' = [ss EXCEPT ![c].qdrant_deleted_count = IF ok THEN @ ELSE 0,
                              ![c].pc = "report"]
          /\ op' = NoteFailure(ok)
    /\ UNCHANGED <<now, dbSessions, dbMessages>>
    /\ UNCHANGED Others

\* lines 74-75: the counts are logged, cleanup_done is set and the landing page is
\* rendered
SweepDone(c) ==
    /\ ss[c].pc = "report"
    /\ ss' = [ss EXCEPT ![c] = [FreshState EXCEPT !.pc = "landing"]]
    /\ UNCHANGED <<now, dbSessions, dbMessages, vectors, op>>
    /\ UNCHANGED Others

----------------------------------------------------------------------------
(* The pages of the application *)

\* "Start KT Session": lines 225-245
StartSession(c, DbOk) ==
    /\ ss[c].pc = "landing"
    /\ \E new_id \in SessionIds \ usedIds :
       \E ok1 \in DbOk, ok2 \in DbOk :
          LET session == Session(new_id, InitialTopics, now)
          IN  /\ usedIds' = usedIds \cup {new_id}
              /\ ss' = [ss EXCEPT ![c] = [FreshState EXCEPT !.pc = "chat",
                                                            !.session_id = new_id,
                                                            !.session = session]]
              /\ dbSessions' = save_session(dbSessions, session, ok1)
              /\ dbMessages' = save_message(dbMessages, dbSessions', new_id,
                                            "assistant", ok2)
    /\ UNCHANGED <<now, vectors, upsertCalls, reached, queryCalls, lastTurn, gc, op>>

\* the answers of the provider the application is run against
AppUpdateObjects ==
    { [knowledge |-> KnowledgeB, confidence_score |-> 85, missing_sections |-> <<>>] }

AppResponses(ids) ==
    { NoText, JsonText([k \in ids \cap {"t1"} |-> CHOOSE o \in AppUpdateObjects : TRUE]),
      JsonText([k \in ids |-> CHOOSE o \in AppUpdateObjects : TRUE]) }

\* the chat input: lines 371-402
ChatTurn(c, DbOk, VecOk, EmbOk) ==
    /\ ss[c].pc = "chat"
    /\ Len(dbMessages[ss[c].session_id]) + 2 <= MaxMessages
    /\ \E response_str \in AppResponses(TopicIdsOf(ss[c].session)) :
       \E ok1 \in DbOk, ok2 \in DbOk, ok3 \in DbOk :
          LET positions == IndexedPositions(ss[c].session.topics,
                               multi_topic_validate_and_score(response_str))
          IN  \E embOk \in [positions -> EmbOk], vecOk \in [positions -> VecOk] :
                 \* the embedding of a point the store rejects is never seen
                 /\ \A n \in positions : vecOk[n] \/ embOk[n] \/ EmbOk = {FALSE}
                 /\ process_knowledge(c, ss[c], response_str, embOk, vecOk, ok2)
                 /\ dbMessages' =
                       save_message(
                          save_message(dbMessages, dbSessions, ss[c].session_id,
                                       "user", ok1),
                          dbSessions', ss[c].session_id, "assistant", ok3)
    /\ UNCHANGED <<now, usedIds, queryCalls, gc, op>>

\* "Clear Session Data": lines 298-308
ClearSession(c, DbOk, VecOk) ==
    /\ ss[c].pc = "chat"
    /\ \E ok1 \in DbOk, ok2 \in VecOk :
          /\ dbSessions' = IF ok1 THEN DeleteSessions(dbSessions, {ss[c].session_id})
                           ELSE dbSessions
          /\ dbMessages' = IF ok1 THEN CascadeMessages(dbMessages, {ss[c].session_id})
                           ELSE dbMessages
          /\ vectors' = IF ok2
                        THEN DeletePoints(vectors,
                                          SessionPoints(vectors, ss[c].session_id))
                        ELSE vectors
    /\ ss' = [ss EXCEPT ![c] = FreshState]
    \* the topics of the cleared session are gone, and the record of them with it
    /\ upsertCalls' = [k \in { k \in DOMAIN upsertCalls : k[1] # ss[c].session_id }
                         |-> upsertCalls[k]]
    /\ reached' = { k \in reached : k[1] # ss[c].session_id }
    /\ UNCHANGED <<now, usedIds, queryCalls, lastTurn, gc, op>>

\* the user closes the tab: the browser session and its session_state are dropped,
\* the stores keep what they hold
CloseTab(c) ==
    /\ ss[c].pc \in {"landing", "chat"}
    /\ ss' = [ss EXCEPT ![c] = [FreshState EXCEPT !.pc = "closed"]]
    /\ upsertCalls' = [k \in { k \in DOMAIN upsertCalls : k[1] # ss[c].session_id }
                         |-> upsertCalls[k]]
    /\ reached' = { k \in reached : k[1] # ss[c].session_id }
    /\ UNCHANGED <<now, dbSessions, dbMessages, vectors, usedIds, queryCalls,
                   lastTurn, gc, op>>

\* a new browser session: "view" and "cleanup_done" are not in session_state
OpenTab(c) ==
    /\ ss[c].pc = "closed"
    /\ ss' = [ss EXCEPT ![c] = FreshState]
    /\ UNCHANGED <<now, dbSessions, dbMessages, vectors, op>>
    /\ UNCHANGED Others

\* time passes: long enough for an idle session to expire
Tick ==
    /\ now + SESSION_TTL_HOURS + 1 <= MaxTime
    /\ now' = now + SESSION_TTL_HOURS + 1
    /\ UNCHANGED <<ss, dbSessions, dbMessages, vectors, op>>
    /\ UNCHANGED Others

Init ==
    /\ now = 0
    /\ ss = [c \in Clients |-> FreshState]
    /\ dbSessions = <<>>
    /\ dbMessages = [id \in SessionIds |-> <<>>]
    /\ vectors = <<>>
    /\ usedIds = {}
    /\ upsertCalls = <<>>
    /\ reached = {}
    /\ queryCalls = {}
    /\ lastTurn = [response |-> ""]
    /\ gc = GcIdle
    /\ op = OpIdle

\* the application, every store call free to fail
Next ==
    \/ \E c \in Clients : CleanupSelect(c, BOOLEAN)
    \/ \E c \in Clients : CleanupDelete(c, BOOLEAN)
    \/ \E c \in Clients : ScanActiveIds(c, BOOLEAN)
    \/ \E c \in Clients : PurgeCount(c, BOOLEAN)
    \/ \E c \in Clients : PurgeDelete(c, BOOLEAN)
    \/ \E c \in Clients : SweepDone(c)
    \/ \E c \in Clients : StartSession(c, BOOLEAN)
    \/ \E c \in Clients : ChatTurn(c, BOOLEAN, BOOLEAN, BOOLEAN)
    \/ \E c \in Clients : ClearSession(c, BOOLEAN, BOOLEAN)
    \/ \E c \in Clients : CloseTab(c)
    \/ \E c \in Clients : OpenTab(c)
    \/ Tick

Spec == Init /\ [][Next]_vars

\* the application with both stores reachable on every call
NextStoresUp ==
    \/ \E c \in Clients : CleanupSelect(c, {TRUE})
    \/ \E c \in Clients : CleanupDelete(c, {TRUE})
    \/ \E c \in Clients : ScanActiveIds(c, {TRUE})
    \/ \E c \in Clients : PurgeCount(c, {TRUE})
    \/ \E c \in Clients : PurgeDelete(c, {TRUE})
    \/ \E c \in Clients : SweepDone(c)
    \/ \E c \in Clients : StartSession(c, {TRUE})
    \/ \E c \in Clients : ChatTurn(c, {TRUE}, {TRUE}, {TRUE})
    \/ \E c \in Clients : ClearSession(c, {TRUE}, {TRUE})
    \/ \E c \in Clients : CloseTab(c)
    \/ \E c \in Clients : OpenTab(c)
    \/ Tick

SpecStoresUp == Init /\ [][NextStoresUp]_vars

----------------------------------------------------------------------------
(* The gateway operations on their own: one call of cleanup_expired_sessions, and *)
(* one call of purge_zombie_vectors, on stores of any content                    *)

StoredIds == { "s" \o ToString(i) : i \in 1..MaxStored }
Stamps == 0..MaxTime
TtlChoices == {2, SESSION_TTL_HOURS}
StoredTopicNames == { InitialTopics[i].name : i \in 1..2 }

\* the contents table "sessions" may have: some of the ids, each with some timestamp
StoredSessions ==
    UNION { [ids -> Stamps] : ids \in SUBSET StoredIds }

\* the contents the collection may have: some topics of some sessions
StoredPoints ==
    SUBSET (StoredIds \X StoredTopicNames)

Tracking(hours) ==
    [pc |-> "tracking", hours |-> hours, failed |-> FALSE,
     sessions0 |-> dbSessions, messages0 |-> dbMessages, vectors0 |-> vectors]

InitCleanup ==
    /\ now = MaxTime
    /\ ss = [c \in Clients |-> IF c = "c1" THEN FreshState
                               ELSE [FreshState EXCEPT !.pc = "closed"]]
    /\ \E stamps \in StoredSessions :
          /\ dbSessions = [id \in DOMAIN stamps |->
                              SessionRow(Session(id, InitialTopics, stamps[id]))]
          /\ dbMessages = [id \in StoredIds |->
                              IF id \in DOMAIN stamps THEN <<"assistant">> ELSE <<>>]
    /\ vectors = <<>>
    /\ usedIds = StoredIds
    /\ upsertCalls = <<>>
    /\ reached = {}
    /\ queryCalls = {}
    /\ lastTurn = [response |-> ""]
    /\ gc = GcIdle
    /\ \E hours \in TtlChoices : op = Tracking(hours)

NextCleanup ==
    \/ CleanupSelect("c1", BOOLEAN)
    \/ CleanupDelete("c1", BOOLEAN)

SpecCleanup == InitCleanup /\ [][NextCleanup]_vars

InitPurge ==
    /\ now = 0
    /\ \E active_ids \in SUBSET StoredIds :
          ss = [c \in Clients |->
                  IF c = "c1"
                  THEN [FreshState EXCEPT !.pc = "purge_count",
                                          !.active_ids = active_ids]
                  ELSE [FreshState EXCEPT !.pc = "closed"]]
    /\ dbSessions = <<>>
    /\ dbMessages = [id \in StoredIds |-> <<>>]
    /\ \E points \in StoredPoints :
          vectors = [p \in { PointId(k[1], k[2]) : k \in points } |->
                        LET k == CHOOSE k \in points : PointId(k[1], k[2]) = p
                        IN  [vector |-> ModelVector,
                             payload |-> [session_id |-> k[1], topic |-> k[2],
                                          summary |-> SummaryText(EmptyKnowledge)]]]
    /\ usedIds = StoredIds
    /\ upsertCalls = <<>>
    /\ reached = {}
    /\ queryCalls = {}
    /\ lastTurn = [response |-> ""]
    /\ gc = GcIdle
    /\ op = Tracking(SESSION_TTL_HOURS)

NextPurge ==
    \/ PurgeCount("c1", BOOLEAN)
    \/ PurgeDelete("c1", BOOLEAN)

SpecPurge == InitPurge /\ [][NextPurge]_vars

\* C8: when purge_zombie_vectors has returned, every record still in the store is
\* a record it found there, unchanged, and the number returned is the number of
\* records deleted; when the store answered every request, the records deleted are
\* exactly those whose session id is not in the whitelist.
C8_PurgeDeletesExactlyZombies ==
    (op.pc = "tracking" /\ ss["c1"].pc = "report") =>
        LET deleted == DOMAIN op.vectors0 \ DOMAIN vectors
        IN  /\ \A p \in DOMAIN vectors :
                  p \in DOMAIN op.vectors0 /\ vectors[p] = op.vectors0[p]
            /\ ss["c1"].qdrant_deleted_count = Cardinality(deleted)
            /\ ~op.failed =>
                  deleted = { p \in DOMAIN op.vectors0 :
                                op.vectors0[p].payload.session_id
                                    \notin ss["c1"].active_ids }

\* records of sessions s1 and s2, whitelist [s1]: the s2 record is gone, 1 returned
C8_Witness ==
    /\ op.pc = "tracking" /\ ss["c1"].pc = "report"
    /\ ss["c1"].active_ids = {"s1"}
    /\ { op.vectors0[p].payload.session_id : p \in DOMAIN op.vectors0 } = {"s1", "s2"}
    /\ { vectors[p].payload.session_id : p \in DOMAIN vectors } = {"s1"}
    /\ Cardinality(DOMAIN op.vectors0) = Cardinality(DOMAIN vectors) + 1
    /\ ss["c1"].qdrant_deleted_count = 1

\* C9: when cleanup_expired_sessions has returned, the ids returned are the ids of
\* the rows deleted and every other row and its messages are as before; when the
\* store answered every request, the rows deleted are exactly those whose
\* updated_at is strictly older than now minus the TTL.
C9_CleanupDeletesExactlyExpired ==
    (op.pc = "tracking" /\ ss["c1"].pc = "scan") =>
        LET deleted == DOMAIN op.sessions0 \ DOMAIN dbSessions
        IN  /\ ss["c1"].expired_ids = deleted
            /\ \A id \in DOMAIN dbSessions :
                  /\ id \in DOMAIN op.sessions0
                  /\ dbSessions[id] = op.sessions0[id]
                  /\ dbMessages[id] = op.messages0[id]
            /\ ~op.failed =>
                  deleted = { id \in DOMAIN op.sessions0 :
                                op.sessions0[id].updated_at < now - op.hours }

\* TTL 6, one session updated 7 hours ago, one exactly 6 hours ago and one 1 hour
\* ago: only the first is deleted and returned
C9_Witness ==
    /\ op.pc = "tracking" /\ ss["c1"].pc = "scan"
    /\ op.hours = 6
    /\ { op.sessions0[id].updated_at : id \in DOMAIN op.sessions0 }
          = {now - 7, now - 6, now - 1}
    /\ { dbSessions[id].updated_at : id \in DOMAIN dbSessions } = {now - 6, now - 1}
    /\ Cardinality(ss["c1"].expired_ids) = 1
    /\ \A id \in ss["c1"].expired_ids : dbMessages[id] = <<>>

----------------------------------------------------------------------------
(* AIEngine.get_completion *)

PRIMARY_MODEL == "primary"
SECONDARY_MODEL == "secondary"
JsonObject == [type |-> "json_object"]

\* the (response_format, model) arguments of the four call sites: interrogate,
\* multi_topic_validate_and_score, generate_final_summary, the search answer
Requests ==
    { [response_format |-> NoFormat, model |-> SECONDARY_MODEL],
      [response_format |-> JsonObject, model |-> PRIMARY_MODEL],
      [response_format |-> NoFormat, model |-> PRIMARY_MODEL],
      [response_format |-> NoFormat, model |-> ""] }

\* what one litellm.completion call may do: answer with some content, answer with
\* no choices (response.choices[0] raises IndexError), or raise
ProviderOutcomes ==
    { [kind |-> "ok", content |-> Str("an answer")],
      [kind |-> "ok", content |-> Str("")],
      [kind |-> "ok", content |-> Null],
      [kind |-> "raise", exc |-> "IndexError"],
      [kind |-> "raise", exc |-> "RateLimitError"],
      [kind |-> "raise", exc |-> "ServiceUnavailableError"],
      [kind |-> "raise", exc |-> "AuthenticationError"],
      [kind |-> "raise", exc |-> "BadRequestError"] }

\* mutant of IsRetryable: every exception handled by the retrying clause
IsRetryableAny(exc) == TRUE

\* except (litellm.ServiceUnavailableError, litellm.RateLimitError)
IsRetryable(exc) == exc \in {"ServiceUnavailableError", "RateLimitError"}

\* except Exception: every exception the call can raise is an Exception
IsException(exc) == TRUE

\* mutant of MayRetry: the last attempt backs off too
MayRetryAlways(attempt) == attempt < max_retries

\* if attempt < max_retries - 1
MayRetry(attempt) == attempt < max_retries - 1

Sleep(ms) == [ev |-> "sleep", ms |-> ms]
Call(outcome) == [ev |-> "call", outcome |-> outcome]

Raised(exc) == [kind |-> "raised", exc |-> exc]
Returned(content) == [kind |-> "value", content |-> content]

\* lines 14-16: a call begins
GcStart ==
    /\ gc.pc = "idle"
    /\ \E request \in Requests :
          gc' = [GcIdle EXCEPT
                    !.pc = "loop",
                    !.model = IF request.model = "" THEN PRIMARY_MODEL
                              ELSE request.model,
                    !.response_format = request.response_format,
                    !.retry_delay = initial_retry_delay_ms]
    /\ UNCHANGED <<now, ss, dbSessions, dbMessages, vectors, usedIds, upsertCalls,
                   reached, queryCalls, lastTurn, op>>

\* lines 18-54: one iteration of the retry loop
GcAttempt ==
    /\ gc.pc = "loop"
    /\ \E outcome \in ProviderOutcomes :
          LET tried == gc.trace \o <<Sleep(pacing_delay_ms), Call(outcome)>>
          IN  gc' =
                IF outcome.kind = "ok"
                THEN [gc EXCEPT !.pc = "returned", !.trace = tried,
                                !.result = IF outcome.content = Null THEN NoResult
                                           ELSE Returned(outcome.content)]
                ELSE IF IsRetryable(outcome.exc)
                THEN IF MayRetry(gc.attempt)
                     THEN LET next == gc.attempt + 1
                          IN  [gc EXCEPT
                                 !.trace = tried \o <<Sleep(gc.retry_delay)>>,
                                 !.retry_delay = gc.retry_delay * 2,
                                 !.attempt = next,
                                 \* line 56: the loop ran out
                                 !.pc = IF next < max_retries THEN "loop"
                                        ELSE "returned",
                                 !.result = NoResult]
                     ELSE [gc EXCEPT !.pc = "returned", !.trace = tried,
                                     !.result = NoResult]
                ELSE IF IsException(outcome.exc)
                THEN [gc EXCEPT !.pc = "returned", !.trace = tried,
                                !.result = NoResult]
                ELSE [gc EXCEPT !.pc = "returned", !.trace = tried,
                                !.result = Raised(outcome.exc)]
    /\ UNCHANGED <<now, ss, dbSessions, dbMessages, vectors, usedIds, upsertCalls,
                   reached, queryCalls, lastTurn, op>>

\* the caller has taken the result
GcDone ==
    /\ gc.pc = "returned"
    /\ gc' = GcIdle
    /\ UNCHANGED <<now, ss, dbSessions, dbMessages, vectors, usedIds, upsertCalls,
                   reached, queryCalls, lastTurn, op>>

InitCompletion ==
    /\ now = 0
    /\ ss = [c \in Clients |-> FreshState]
    /\ dbSessions = <<>>
    /\ dbMessages = [id \in SessionIds |-> <<>>]
    /\ vectors = <<>>
    /\ usedIds = {}
    /\ upsertCalls = <<>>
    /\ reached = {}
    /\ queryCalls = {}
    /\ lastTurn = [response |-> ""]
    /\ gc = GcIdle
    /\ op = OpIdle

NextCompletion == GcStart \/ GcAttempt \/ GcDone

SpecCompletion == InitCompletion /\ [][NextCompletion]_vars

CallsOf(trace) == SelectSeq(trace, LAMBDA e : e.ev = "call")
Failed(e) == e.ev = "call" /\ e.outcome.kind = "raise"
FailedRetryably(e) == Failed(e) /\ e.outcome.exc \in {"ServiceUnavailableError", "RateLimitError"}

\* C4: get_completion makes at most 3 attempts, sleeps the 0.5 s pacing delay right
\* before each one and stops at the first answer; when every attempt fails with a
\* rate-limit or service-unavailable error it makes exactly 3 attempts, backs off
\* 2 s after the first failure and 4 s after the second, does not back off after
\* the third, and returns no result.
C4_RetryBudgetAndBackoff ==
    LET t == gc.trace
        calls == CallsOf(t)
    IN  /\ Len(calls) <= 3
        /\ \A i \in 1..Len(t) :
              t[i].ev = "call" => (i > 1 /\ t[i - 1] = Sleep(500))
        /\ \A i \in 1..Len(t) :
              (t[i].ev = "call" /\ t[i].outcome.kind = "ok")
                 => (i = Len(t) /\ gc.pc = "returned")
        /\ (gc.pc = "returned" /\ Len(calls) >= 1
              /\ \A i \in 1..Len(calls) : FailedRetryably(calls[i]))
           => /\ Len(calls) = 3
              /\ [i \in 1..Len(t) |-> IF t[i].ev = "sleep" THEN t[i].ms ELSE 0]
                    = <<500, 0, 2000, 500, 0, 4000, 500, 0>>
              /\ gc.result = NoResult

\* three rate-limit or service-unavailable failures in a row, and the call is over
C4_Witness ==
    /\ gc.pc = "returned"
    /\ Len(CallsOf(gc.trace)) = 3
    /\ \A i \in 1..3 : FailedRetryably(CallsOf(gc.trace)[i])

\* C5: get_completion never raises: a failure that is neither rate-limit nor
\* service-unavailable ends the call at once with no result, on whichever attempt
\* it happens, and so does running out of retries.
C5_NeverRaises ==
    LET t == gc.trace
    IN  /\ gc.result.kind # "raised"
        /\ \A i \in 1..Len(t) :
              (Failed(t[i]) /\ ~FailedRetryably(t[i]))
                 => (i = Len(t) /\ gc.pc = "returned" /\ gc.result = NoResult)
        /\ (gc.pc = "returned" /\ t # <<>> /\ Failed(t[Len(t)]))
              => gc.result = NoResult
        /\ (gc.pc = "returned" /\ t # <<>> /\ t[Len(t)].ev = "sleep")
              => gc.result = NoResult

\* a permanent provider error on the second attempt, after one retryable failure
C5_Witness ==
    /\ gc.pc = "returned"
    /\ Len(CallsOf(gc.trace)) = 2
    /\ FailedRetryably(CallsOf(gc.trace)[1])
    /\ CallsOf(gc.trace)[2] = Call([kind |-> "raise", exc |-> "AuthenticationError"])
    /\ gc.result = NoResult

----------------------------------------------------------------------------
(* Deletion of a session *)

\* nothing of the session is left in the relational store or in the vector store
Gone(session_id, sessions, messages, store) ==
    /\ session_id \notin DOMAIN sessions
    /\ messages[session_id] = <<>>
    /\ SessionPoints(store, session_id) = {}

SweepEnds(c) == ss[c].pc \in {"purge_count", "purge_delete"} /\ ss'[c].pc = "report"
ClearEnds(c) == ss[c].pc = "chat" /\ ss'[c].pc = "start"

\* C10: when the expiry sweep has finished, no row, no message and no vector
\* record is left of any session it deleted, and when Clear Session Data has
\* finished, none is left of the cleared session.
C10_DeletionCascades ==
    [][\A c \in Clients :
          /\ SweepEnds(c) =>
                \A id \in ss'[c].expired_ids : Gone(id, dbSessions', dbMessages', vectors')
          /\ ClearEnds(c) =>
                Gone(ss[c].session_id, dbSessions', dbMessages', vectors')]_vars

----------------------------------------------------------------------------
(* The sweep while other clients hold sessions *)

\* client c holds a session whose row the relational store no longer has
HoldsDeleted(c) == ss[c].pc = "chat" /\ ss[c].session_id \notin DOMAIN dbSessions

RowsDeleteEnds(c) == ss[c].pc = "cleanup_delete" /\ ss'[c].pc = "scan"
PurgeDeleteEnds(c) == ss[c].pc = "purge_delete" /\ ss'[c].pc = "report"

\* C11: a session the sweep deleted while a client still holds it does not come
\* back into the relational store, and gets no new message, through anything that
\* client does later; the sweep's row delete removes only rows it selected as
\* expired and leaves every other row and its messages as they were; the sweep's
\* vector delete removes no record of a session that has a row.
C11_SweepSafeForOpenSessions ==
    [][\A c \in Clients :
          /\ HoldsDeleted(c) =>
                /\ ss[c].session_id \notin DOMAIN dbSessions'
                /\ dbMessages'[ss[c].session_id] = dbMessages[ss[c].session_id]
          /\ RowsDeleteEnds(c) =>
                \A id \in DOMAIN dbSessions \ ss[c].expired_ids :
                    /\ id \in DOMAIN dbSessions'
                    /\ dbSessions'[id] = dbSessions[id]
                    /\ dbMessages'[id] = dbMessages[id]
          /\ PurgeDeleteEnds(c) =>
                \A p \in DOMAIN vectors :
                    vectors[p].payload.session_id \in DOMAIN dbSessions
                       => (p \in DOMAIN vectors' /\ vectors'[p] = vectors[p])]_vars

----------------------------------------------------------------------------
(* VectorService.upsert_topic_summary on its own, called again and again *)

Summaries == { SummaryText(EmptyKnowledge), SummaryText(TopicKnowledge(KnowledgeB)) }
Embeddings == { ModelVector, ZeroVector }

\* one call; VecOk = FALSE stands for a store that is unconfigured or unreachable
upsert_topic_summary(session_id, topic_name, summary, embedding, ok) ==
    /\ vectors' = IF ok THEN UpsertPoint(vectors, session_id, topic_name, summary,
                                         embedding)
                  ELSE vectors
    /\ op' = [pc |-> "upserted", failed |-> ~ok, vectors0 |-> vectors,
              call |-> [session_id |-> session_id, topic_name |-> topic_name,
                        summary |-> summary, embedding |-> embedding]]

UpsertCall ==
    /\ \E session_id \in SessionIds, topic_name \in StoredTopicNames,
          summary \in Summaries, embedding \in Embeddings, ok \in BOOLEAN :
          upsert_topic_summary(session_id, topic_name, summary, embedding, ok)
    /\ UNCHANGED <<now, ss, dbSessions, dbMessages>>
    /\ UNCHANGED Others

InitUpsert ==
    /\ now = 0
    /\ ss = [c \in Clients |-> FreshState]
    /\ dbSessions = <<>>
    /\ dbMessages = [id \in SessionIds |-> <<>>]
    /\ vectors = <<>>
    /\ usedIds = SessionIds
    /\ upsertCalls = <<>>
    /\ reached = {}
    /\ queryCalls = {}
    /\ lastTurn = [response |-> ""]
    /\ gc = GcIdle
    /\ op = OpIdle

NextUpsert == UpsertCall

SpecUpsert == InitUpsert /\ [][NextUpsert]_vars

\* the records of a store that carry the given (session id, topic name)
RecordsOf(store, session_id, topic_name) ==
    { p \in DOMAIN store : /\ store[p].payload.session_id = session_id
                           /\ store[p].payload.topic = topic_name }

\* C12: after an upsert the store answered, whatever upserts came before it, the
\* store holds exactly one record for the call's (session id, topic name), carrying
\* the call's summary and vector, and the records of every other pair are the ones
\* the store held before the call, unchanged.
C12_UpsertIdempotentPerPair ==
    (op.pc = "upserted" /\ ~op.failed) =>
        LET k == op.call
            mine == RecordsOf(vectors, k.session_id, k.topic_name)
            before == RecordsOf(op.vectors0, k.session_id, k.topic_name)
        IN  /\ Cardinality(mine) = 1
            /\ \A p \in mine :
                  /\ vectors[p].vector = k.embedding
                  /\ vectors[p].payload.summary = k.summary
            /\ DOMAIN vectors \ mine = DOMAIN op.vectors0 \ before
            /\ \A p \in DOMAIN vectors \ mine : vectors[p] = op.vectors0[p]

\* a pair upserted again with another summary while records of other pairs, one of
\* them for the same topic of another session, are in the store
C12_Witness ==
    /\ op.pc = "upserted" /\ ~op.failed
    /\ \E p \in RecordsOf(op.vectors0, op.call.session_id, op.call.topic_name) :
          op.vectors0[p].payload.summary # op.call.summary
    /\ \E p \in DOMAIN vectors :
          /\ vectors[p].payload.session_id # op.call.session_id
          /\ vectors[p].payload.topic = op.call.topic_name
    /\ Cardinality(DOMAIN vectors) >= 3

----------------------------------------------------------------------------
(* The application while neither store answers: every request to the relational *)
(* store raises inside the gateway, the vector gateway is unreachable or has no  *)
(* client                                                                         *)

\* session a, started and saved while the stores were up, its first topic complete
\* and indexed
OutageTopics ==
    [i \in 1..Len(InitialTopics) |->
        IF i = 1
        THEN MarkComplete(ApplyUpdate(InitialTopics[1],
                                      CHOOSE o \in AppUpdateObjects : TRUE))
        ELSE InitialTopics[i]]

OutageSession ==
    [Session("a", OutageTopics, 0) EXCEPT
        !.overall_confidence = OverallConfidence(OutageTopics)]

InitOutage ==
    /\ now = 0
    /\ ss = [c \in Clients |->
                IF c = "c1"
                THEN [FreshState EXCEPT !.pc = "chat", !.session_id = "a",
                                        !.session = OutageSession]
                ELSE FreshState]
    /\ dbSessions = save_session(<<>>, OutageSession, TRUE)
    /\ dbMessages = [id \in SessionIds |->
                        IF id = "a" THEN <<"assistant", "user", "assistant">> ELSE <<>>]
    /\ vectors = UpsertPoint(<<>>, "a", OutageTopics[1].name,
                             SummaryText(OutageTopics[1].knowledge), ModelVector)
    /\ usedIds = {"a"}
    /\ upsertCalls = (<<"a", OutageTopics[1].name>> :> 1)
    /\ reached = {<<"a", "t1">>}
    /\ queryCalls = {}
    /\ lastTurn = [response |-> ""]
    /\ gc = GcIdle
    /\ op = OpIdle

NextOutage ==
    \/ \E c \in Clients : CleanupSelect(c, {FALSE})
    \/ \E c \in Clients : ScanActiveIds(c, {FALSE})
    \/ \E c \in Clients : PurgeCount(c, {FALSE})
    \/ \E c \in Clients : SweepDone(c)
    \/ \E c \in Clients : StartSession(c, {FALSE})
    \/ \E c \in Clients : ChatTurn(c, {FALSE}, {FALSE}, {TRUE})
    \/ \E c \in Clients : ClearSession(c, {FALSE}, {FALSE})
    \/ \E c \in Clients : CloseTab(c)
    \/ \E c \in Clients : OpenTab(c)
    \/ Tick

SpecOutage == InitOutage /\ [][NextOutage]_vars

\* client c has taken a chat turn in this step
TurnTaken(c) == ss[c].pc = "chat" /\ ss'[c].pc = "chat" /\ ss'[c] # ss[c]

\* every gateway call returns its empty result and writes nothing
GatewaysNoOp ==
    /\ dbSessions' = dbSessions /\ dbMessages' = dbMessages /\ vectors' = vectors
    /\ \A c \in Clients :
          /\ ss'[c].expired_ids = {}
          /\ ss'[c].active_ids = {}
          /\ ss'[c].zombie_count = 0
          /\ ss'[c].qdrant_deleted_count = 0

\* the turn ran to its end: the client is still in the chat with its session
TurnsRunToEnd ==
    \A c \in Clients :
        ss[c].pc = "chat" =>
            /\ ENABLED ChatTurn(c, {FALSE}, {FALSE}, {TRUE})
            /\ ss'[c].pc = "chat" => ss'[c].session_id = ss[c].session_id

----------------------------------------------------------------------------
(* TopicKnowledge on its own: a knowledge object validated, dumped by alias as *)
(* save_session dumps it, and validated again as get_session does             *)

Items == {"orders", "invoices"}

RECURSIVE SeqsUpTo(_, _)
SeqsUpTo(S, n) ==
    IF n = 0 THEN {<<>>}
    ELSE LET shorter == SeqsUpTo(S, n - 1)
         IN  shorter \cup { Append(q, x) : q \in { r \in shorter : Len(r) = n - 1 },
                                           x \in S }

\* the values a provider may put under a knowledge key
FieldValues ==
    {Null, Str(""), Str("billing service"), Str("- orders"), Str("- orders\n- invoices")}
    \cup { List(q) : q \in SeqsUpTo(Items, MaxItems) }

\* the field a key is read into
FieldOfAlias(k) == CHOOSE f \in KnowledgeFields : Alias(f) = k

\* TopicKnowledge.model_dump(by_alias=True): keyed by alias
model_dump_by_alias(knowledge) ==
    [k \in { Alias(f) : f \in KnowledgeFields } |-> knowledge[FieldOfAlias(k)]]

InitNormalize ==
    /\ now = 0
    /\ ss = [c \in Clients |-> FreshState]
    /\ dbSessions = <<>>
    /\ dbMessages = [id \in SessionIds |-> <<>>]
    /\ vectors = <<>>
    /\ usedIds = {}
    /\ upsertCalls = <<>>
    /\ reached = {}
    /\ queryCalls = {}
    /\ lastTurn = [response |-> ""]
    /\ gc = GcIdle
    /\ \E f \in KnowledgeFields, v \in FieldValues :
          op = [pc |-> "raw", field |-> f, value |-> v, data |-> (Alias(f) :> v)]

\* TopicKnowledge(**data)
ValidateOnce ==
    /\ op.pc = "raw"
    /\ op' = [pc |-> "once", field |-> op.field, value |-> op.value, data |-> op.data,
              once |-> TopicKnowledge(op.data)]
    /\ UNCHANGED <<now, ss, dbSessions, dbMessages, vectors>>
    /\ UNCHANGED Others

\* TopicKnowledge(**knowledge.model_dump(by_alias=True))
ValidateAgain ==
    /\ op.pc = "once"
    /\ op' = [pc |-> "twice", field |-> op.field, value |-> op.value, data |-> op.data,
              once |-> op.once,
              twice |-> TopicKnowledge(model_dump_by_alias(op.once))]
    /\ UNCHANGED <<now, ss, dbSessions, dbMessages, vectors>>
    /\ UNCHANGED Others

NextNormalize == ValidateOnce \/ ValidateAgain

SpecNormalize == InitNormalize /\ [][NextNormalize]_vars

\* "- item" lines joined by newlines, built from the last item backwards
RECURSIVE DashLines(_, _)
DashLines(items, n) ==
    IF n = 0 THEN ""
    ELSE IF n = 1 THEN "- " \o items[1]
    ELSE DashLines(items, n - 1) \o "\n" \o "- " \o items[n]

\* C14: whichever of the eight fields a value is given for, a list becomes the one
\* string of its "- item" lines joined by newlines and any other value is kept, the
\* fields not given stay None, and validating the result again returns it unchanged.
C14_NormalizationIdempotent ==
    /\ op.pc \in {"once", "twice"} =>
          /\ op.once[op.field] =
                IF op.value.kind = "list"
                THEN Str(DashLines(op.value.items, Len(op.value.items)))
                ELSE op.value
          /\ \A f \in KnowledgeFields \ {op.field} : op.once[f] = Null
    /\ op.pc = "twice" => op.twice = op.once

\* a list of two items given under an aliased key, validated twice
C14_Witness ==
    /\ op.pc = "twice"
    /\ op.field = "inputs_outputs"
    /\ op.value = List(<<"orders", "invoices">>)
    /\ op.twice["inputs_outputs"] = Str("- orders\n- invoices")

----------------------------------------------------------------------------
(* extract_text_from_file *)

\* byte values: ASCII "A", the lead bytes of a 2- and a 3-byte sequence, a
\* continuation byte, and a byte no UTF-8 text contains
Bytes == {65, 195, 226, 169, 255}

Contents == SeqsUpTo(Bytes, MaxBytes)

\* file names, as sequences of characters
FileNames ==
    { <<"a", ".", "t", "x", "t">>, <<".", "t", "x", "t">>, <<"a", ".", "T", "X", "T">>,
      <<"a", ".", "t", "x", "t", ".", "b", "a", "k">>, <<"a", ".", "m", "d">>,
      <<"t", "x", "t">>, <<"a", ".", "p", "d", "f">> }

\* str.endswith
EndsWith(name, suffix) ==
    /\ Len(name) >= Len(suffix)
    /\ SubSeq(name, Len(name) - Len(suffix) + 1, Len(name)) = suffix

IsContinuation(b) == b >= 128 /\ b <= 191

Decoded(chars) == [ok |-> TRUE, chars |-> chars]
DecodeError == [ok |-> FALSE, chars |-> <<>>]

\* bytes.decode("utf-8"): the code points, or UnicodeDecodeError
RECURSIVE Utf8Decode(_)
Utf8Decode(b) ==
    IF Len(b) = 0 THEN Decoded(<<>>)
    ELSE LET b1 == b[1]
             n == IF b1 < 128 THEN 1
                  ELSE IF b1 >= 194 /\ b1 <= 223 THEN 2
                  ELSE IF b1 >= 224 /\ b1 <= 239 THEN 3
                  ELSE IF b1 >= 240 /\ b1 <= 244 THEN 4
                  ELSE 0
         IN  IF n = 0 \/ Len(b) < n THEN DecodeError
             ELSE IF \E i \in 2..n : ~IsContinuation(b[i]) THEN DecodeError
             ELSE IF \/ (b1 = 224 /\ b[2] < 160)
                     \/ (b1 = 237 /\ b[2] > 159)
                     \/ (b1 = 240 /\ b[2] < 144)
                     \/ (b1 = 244 /\ b[2] > 143)
                  THEN DecodeError
             ELSE LET cp == CASE n = 1 -> b1
                              [] n = 2 -> (b1 - 192) * 64 + (b[2] - 128)
                              [] n = 3 -> (b1 - 224) * 4096 + (b[2] - 128) * 64
                                          + (b[3] - 128)
                              [] n = 4 -> (b1 - 240) * 262144 + (b[2] - 128) * 4096
                                          + (b[3] - 128) * 64 + (b[4] - 128)
                      rest == Utf8Decode(SubSeq(b, n + 1, Len(b)))
                  IN  IF rest.ok THEN Decoded(<<cp>> \o rest.chars) ELSE DecodeError

\* mutant of Latin1Decode: the fallback codec is "ascii"
AsciiDecode(b) ==
    IF \A i \in 1..Len(b) : b[i] < 128 THEN Decoded(b) ELSE DecodeError

\* bytes.decode("latin-1"): every byte is the code point of its value
Latin1Decode(b) == Decoded(b)

Text(chars) == [kind |-> "text", chars |-> chars]
NoContent == [kind |-> "none"]
\* the "ERROR: ..." notice, abbreviated to the code points of "ERR"
PdfLibraryMissing == [kind |-> "text", chars |-> <<69, 82, 82>>]

\* what the pypdf branch may give: the pages' text, the notice that pypdf is not
\* installed, or None after an exception
PdfResults == { Text(<<65>>), Text(<<>>), PdfLibraryMissing, NoContent }

extract_text_from_file(file_bytes, file_name, pdf_result) ==
    IF EndsWith(file_name, <<".", "t", "x", "t">>)
    THEN LET utf8 == Utf8Decode(file_bytes)
         IN  IF utf8.ok THEN Text(utf8.chars)
             ELSE LET latin1 == Latin1Decode(file_bytes)
                  IN  IF latin1.ok THEN Text(latin1.chars) ELSE NoContent
    ELSE IF EndsWith(file_name, <<".", "p", "d", "f">>) THEN pdf_result
    ELSE NoContent

InitExtract ==
    /\ now = 0
    /\ ss = [c \in Clients |-> FreshState]
    /\ dbSessions = <<>>
    /\ dbMessages = [id \in SessionIds |-> <<>>]
    /\ vectors = <<>>
    /\ usedIds = {}
    /\ upsertCalls = <<>>
    /\ reached = {}
    /\ queryCalls = {}
    /\ lastTurn = [response |-> ""]
    /\ gc = GcIdle
    /\ \E file_bytes \in Contents, file_name \in FileNames :
          op = [pc |-> "uploaded", file_bytes |-> file_bytes, file_name |-> file_name]

Extract ==
    /\ op.pc = "uploaded"
    /\ \E pdf_result \in PdfResults :
          op' = [pc |-> "extracted", file_bytes |-> op.file_bytes,
                 file_name |-> op.file_name,
                 text |-> extract_text_from_file(op.file_bytes, op.file_name,
                                                 pdf_result)]
    /\ UNCHANGED <<now, ss, dbSessions, dbMessages, vectors>>
    /\ UNCHANGED Others

NextExtract == Extract

SpecExtract == InitExtract /\ [][NextExtract]_vars

Extension(name) ==
    IF \E i \in 1..Len(name) : name[i] = "."
    THEN LET dot == CHOOSE i \in 1..Len(name) :
                       name[i] = "." /\ \A j \in (i + 1)..Len(name) : name[j] # "."
         IN  SubSeq(name, dot, Len(name))
    ELSE <<>>

\* C15: for a name ending in .txt the result is text for every content: the UTF-8
\* reading when the bytes are valid UTF-8, otherwise one character per byte with
\* the byte's value (Latin-1); for a name whose extension is neither .txt nor .pdf
\* the result is the no-text outcome.
C15_TxtAlwaysDecodes ==
    op.pc = "extracted" =>
        /\ Extension(op.file_name) = <<".", "t", "x", "t">> =>
              /\ op.text.kind = "text"
              /\ Utf8Decode(op.file_bytes).ok
                    => op.text.chars = Utf8Decode(op.file_bytes).chars
              /\ ~Utf8Decode(op.file_bytes).ok => op.text.chars = op.file_bytes
        /\ Extension(op.file_name) \notin {<<".", "t", "x", "t">>, <<".", "p", "d", "f">>}
              => op.text = NoContent

\* a .txt file holding "A" and a byte that is not UTF-8: read as Latin-1
C15_Witness ==
    /\ op.pc = "extracted"
    /\ op.file_name = <<"a", ".", "t", "x", "t">>
    /\ op.file_bytes = <<65, 255>>
    /\ op.text = Text(<<65, 255>>)

----------------------------------------------------------------------------
(* Extraction results that are JSON but not the mapping the prompt asks for:   *)
(* json.loads gives them to process_knowledge as they are                      *)

JObject(value) == [kind |-> "object", value |-> value]
JList(items) == [kind |-> "list", items |-> items]
JString(chars) == [kind |-> "string", chars |-> chars]
JNumber(n) == [kind |-> "number", n |-> n]
JNull == [kind |-> "null"]

\* the characters of a topic id
IdChars(id) ==
    CHOOSE s \in { <<"t", ToString(i)>> : i \in 1..(MaxTopics + 1) } :
        s[1] \o s[2] = id

\* Python's "sub in s" for strings
IsSubstring(sub, s) ==
    \E i \in 1..(Len(s) - Len(sub) + 1) : SubSeq(s, i, i + Len(sub) - 1) = sub

\* what json.loads may return for a completion that is valid JSON
JsonValues ==
    { JObject([knowledge |-> KnowledgeA, confidence_score |-> 70,
               missing_sections |-> <<"purpose">>]),
      JObject([knowledge |-> KnowledgeB, confidence_score |-> 85,
               missing_sections |-> <<>>]),
      JNumber(5), JNull }

JsonResults(ids) ==
    { JList(<<>>), JList(<<"t1">>), JNumber(5), JNull,
      JString(<<"o", "k">>), JString(<<"t", "1", " ", "o", "k">>) }
    \cup { JObject(m) : m \in UNION { [keys -> JsonValues] : keys \in SUBSET ids } }

\* the loop body of process_knowledge raises for this topic: "topic.id in
\* all_results" on a number or null (TypeError), all_results[topic.id] on a list or
\* a string that contains the id (TypeError), data.get on a value that is not a
\* dict (AttributeError)
BodyRaises(topic, all_results) ==
    CASE all_results.kind \in {"number", "null"} -> TRUE
      [] all_results.kind = "list" ->
            \E i \in 1..Len(all_results.items) : all_results.items[i] = topic.id
      [] all_results.kind = "string" -> IsSubstring(IdChars(topic.id), all_results.chars)
      [] all_results.kind = "object" ->
            /\ topic.id \in DOMAIN all_results.value
            /\ all_results.value[topic.id].kind # "object"

\* position of the first topic the loop raises at, 0 when it runs to its end
FirstRaise(topics, all_results) ==
    IF \E i \in 1..Len(topics) : BodyRaises(topics[i], all_results)
    THEN CHOOSE i \in 1..Len(topics) :
            /\ BodyRaises(topics[i], all_results)
            /\ \A j \in 1..(i - 1) : ~BodyRaises(topics[j], all_results)
    ELSE 0

\* the entries of all_results the loop can apply
ObjectEntries(all_results) ==
    IF all_results.kind = "object"
    THEN [k \in { k \in DOMAIN all_results.value :
                    all_results.value[k].kind = "object" }
            |-> all_results.value[k].value]
    ELSE <<>>

\* process_knowledge leaving its loop with an exception at position r: the topics
\* before r are already updated in session_state and indexed, line 49 and
\* save_session are not reached
process_knowledge_raising(c, state, entries, r, embOk, vecOk) ==
    LET old == state.session
        topics == [i \in 1..Len(old.topics) |->
                     IF i < r THEN UpdateTopic(old.topics[i], entries)
                     ELSE old.topics[i]]
        positions == { i \in IndexedPositions(old.topics, entries) : i < r }
        session == [old EXCEPT !.topics = topics]
    IN  /\ ss' = [ss EXCEPT ![c] = [state EXCEPT !.session = session]]
        /\ vectors' = IndexTopics(vectors, state.session_id, topics, positions,
                                  embOk, vecOk, Len(topics))
        /\ upsertCalls' = BumpAll(upsertCalls, state.session_id, topics, positions,
                                  Len(topics))
        /\ reached' = reached \cup
              { <<state.session_id, topics[i].id>> : i \in
                  { j \in 1..(r - 1) :
                      /\ topics[j].id \in DOMAIN entries
                      /\ topics[j].confidence_score >= KT_CONFIDENCE_THRESHOLD } }
        /\ dbSessions' = dbSessions
        /\ lastTurn' = [response |-> "json"]

\* process_knowledge on whatever json.loads returned
JsonUpdate(c) ==
    /\ ss[c].pc = "chat"
    /\ \E all_results \in JsonResults(TopicIdsOf(ss[c].session)) :
          LET r == FirstRaise(ss[c].session.topics, all_results)
              entries == ObjectEntries(all_results)
              positions == { i \in IndexedPositions(ss[c].session.topics, entries) :
                               r = 0 \/ i < r }
          IN  \E embOk \in [positions -> BOOLEAN], vecOk \in [positions -> {TRUE}] :
                 /\ IF r = 0
                    THEN process_knowledge(c, ss[c], JsonText(entries), embOk, vecOk,
                                           TRUE)
                    ELSE process_knowledge_raising(c, ss[c], entries, r, embOk, vecOk)
                 /\ op' = [pc |-> "extracted", all_results |-> all_results,
                           raised |-> (r # 0), topics |-> ss[c].session.topics]
    /\ UNCHANGED <<now, dbMessages, usedIds, queryCalls, gc>>

NextJson == \E c \in Clients : JsonUpdate(c)

SpecJson == InitKnowledge /\ [][NextJson]_vars

\* the result is a list, a scalar, or a mapping that gives one of the topic ids a
\* value that is not an object
NotExpectedMapping(all_results, topics) ==
    \/ all_results.kind # "object"
    \/ \E i \in 1..Len(topics) :
          /\ topics[i].id \in DOMAIN all_results.value
          /\ all_results.value[topics[i].id].kind # "object"

\* C16: when the completion parses as JSON but is a list, a scalar, or a mapping
\* whose value for a topic id is not an object, process_knowledge ends without an
\* exception and every topic of the session is as it was before the turn.
C16_NonMappingJsonChangesNothing ==
    (op.pc = "extracted" /\ NotExpectedMapping(op.all_results, op.topics))
        => /\ ~op.raised
           /\ \A c \in Holders : TopicsOf(c) = op.topics

----------------------------------------------------------------------------
(* Range of the scores *)

\* C17: whatever confidence_score the provider returns, each topic's confidence
\* score is an integer from 0 to 100, and so is the session's aggregate confidence.
C17_ScoresWithinRange ==
    \A c \in Holders :
        /\ \A i \in 1..Len(TopicsOf(c)) : TopicsOf(c)[i].confidence_score \in 0..100
        /\ ss[c].session.overall_confidence \in 0..100

----------------------------------------------------------------------------
(* The update policy, topic by topic *)

\* C18: after process_knowledge, a topic whose id is a key of the extraction
\* result has its knowledge, missing sections and confidence score replaced by the
\* values extracted for it, and a topic whose id is not a key keeps its knowledge,
\* missing sections, confidence score and completion flag. (A key whose value is
\* not an object carries no extracted values: nothing is asked of that topic.)
C18_UpdatePolicyPerTopic ==
    op.pc = "extracted" =>
        \A c \in Holders : \A i \in 1..Len(op.topics) :
            LET before == op.topics[i]
                after == TopicsOf(c)[i]
                isKey == /\ op.all_results.kind = "object"
                         /\ before.id \in DOMAIN op.all_results.value
            IN  IF ~isKey
                THEN /\ after.knowledge = before.knowledge
                     /\ after.missing_sections = before.missing_sections
                     /\ after.confidence_score = before.confidence_score
                     /\ after.is_complete = before.is_complete
                ELSE LET data == op.all_results.value[before.id]
                     IN  data.kind = "object" =>
                            /\ after.knowledge
                                  = TopicKnowledge(Get(data.value, "knowledge", <<>>))
                            /\ after.missing_sections
                                  = Get(data.value, "missing_sections", <<>>)
                            /\ after.confidence_score
                                  = Get(data.value, "confidence_score", 0)

----------------------------------------------------------------------------
(* The transition from gathering to complete *)

\* C19: after every knowledge update a topic whose confidence score is at or above
\* the threshold (80 included) has its completion flag true, and a topic that has
\* never received a score at or above the threshold has its flag false.
C19_CompleteAtThreshold ==
    \A c \in Holders : \A i \in 1..Len(TopicsOf(c)) :
        LET topic == TopicsOf(c)[i]
        IN  /\ topic.confidence_score >= KT_CONFIDENCE_THRESHOLD => topic.is_complete
            /\ <<ss[c].session_id, topic.id>> \notin reached => ~topic.is_complete

\* one topic complete at a score of exactly 80, another updated to 70 and still
\* gathering
C19_Witness ==
    \E c \in Holders : \E i, j \in 1..Len(TopicsOf(c)) :
        /\ TopicsOf(c)[i].confidence_score = 80
        /\ TopicsOf(c)[i].is_complete
        /\ TopicsOf(c)[j].confidence_score = 70
        /\ ~TopicsOf(c)[j].is_complete
        /\ lastTurn.response = "json"

----------------------------------------------------------------------------
(* The sidebar's topic loop: the active topic of the next question *)

\* lines 264-275: current_topic_idx (counted from 0, as enumerate does) after the
\* loop has passed the first n topics
RECURSIVE SidebarLoop(_, _)
SidebarLoop(topics, n) ==
    IF n = 0 THEN 0
    ELSE LET current_topic_idx == SidebarLoop(topics, n - 1)
             i == n - 1
         IN  IF /\ topics[n].confidence_score < KT_CONFIDENCE_THRESHOLD
                /\ current_topic_idx = 0
             THEN i
             ELSE current_topic_idx

\* one script run of the chat page up to the end of the sidebar
Render(c) ==
    /\ ss[c].pc = "chat"
    /\ op' = [pc |-> "rendered", client |-> c, topics |-> ss[c].session.topics,
              current_topic_idx |->
                  SidebarLoop(ss[c].session.topics, Len(ss[c].session.topics))]
    /\ UNCHANGED <<now, ss, dbSessions, dbMessages, vectors>>
    /\ UNCHANGED Others

\* the chat turn's process_knowledge between two renders, with the scores that
\* matter to the loop: one below the threshold and one above
RenderUpdateObjects == { o \in UpdateObjects : Get(o, "confidence_score", 0) \in {70, 85} }

TurnBetweenRenders(c) ==
    /\ ss[c].pc = "chat"
    /\ \E response_str \in Responses(TopicIdsOf(ss[c].session), RenderUpdateObjects) :
          LET positions == IndexedPositions(ss[c].session.topics,
                               multi_topic_validate_and_score(response_str))
          IN  process_knowledge(c, ss[c], response_str, [n \in positions |-> TRUE],
                                [n \in positions |-> TRUE], TRUE)
    /\ UNCHANGED <<now, dbMessages, usedIds, queryCalls, gc, op>>

NextRender ==
    \/ \E c \in Clients : TurnBetweenRenders(c)
    \/ \E c \in Clients : Render(c)

SpecRender == InitKnowledge /\ [][NextRender]_vars

\* C20: the index a render leaves in current_topic_idx is that of the first topic,
\* in session order, whose confidence score is below the threshold, and 0 when no
\* topic is below it.
C20_ActiveTopicIsFirstBelowThreshold ==
    op.pc = "rendered" =>
        LET below == { i \in 0..(Len(op.topics) - 1) :
                         op.topics[i + 1].confidence_score < KT_CONFIDENCE_THRESHOLD }
        IN  IF below = {} THEN op.current_topic_idx = 0
            ELSE /\ op.current_topic_idx \in below
                 /\ \A i \in below : op.current_topic_idx <= i

----------------------------------------------------------------------------
(* The sweep's vector purge against sessions that have a row *)

\* the application with both stores reachable, except that the id scan of the
\* sweep may fail
NextScanMayFail ==
    \/ NextStoresUp
    \/ \E c \in Clients : ScanActiveIds(c, {FALSE})

SpecScanMayFail == Init /\ [][NextScanMayFail]_vars

\* C21: the delete of purge_zombie_vectors removes no vector record whose session
\* has a row in the relational store at that moment, in every interleaving with the
\* other client and whether or not the id scan succeeded.
C21_PurgeSparesLiveSessions ==
    [][\A c \in Clients :
          (ss[c].pc = "purge_delete" /\ vectors' # vectors)
             => \A p \in DOMAIN vectors \ DOMAIN vectors' :
                   vectors[p].payload.session_id \notin DOMAIN dbSessions]_vars

----------------------------------------------------------------------------
(* Knowledge search with two sessions in the index *)

\* the sets of points a nearest-neighbour query with the given limit may return:
\* the query carries no filter, so every point of the collection is a candidate,
\* and which ones rank first depends on the vectors
Hits(store, n) ==
    { h \in SUBSET DOMAIN store :
        Cardinality(h) = IF Cardinality(DOMAIN store) < n
                         THEN Cardinality(DOMAIN store) ELSE n }

\* VectorService.search_kt: the payloads of the hits, [] when the store fails
search_kt(store, hits, ok) == IF ok THEN { store[p].payload : p \in hits } ELSE {}

\* the search box with its results: lines 337-346
SearchKt(c, VecOk) ==
    /\ ss[c].pc = "chat"
    /\ \E i \in 1..Len(ss[c].session.topics) : ss[c].session.topics[i].is_complete
    /\ \E embOk \in BOOLEAN, ok \in VecOk, hits \in Hits(vectors, limit) :
          /\ queryCalls' = queryCalls \cup {get_embedding(embOk)}
          /\ op' = [pc |-> "searched", client |-> c, session_id |-> ss[c].session_id,
                    results |-> search_kt(vectors, hits, ok)]
    /\ UNCHANGED <<now, ss, dbSessions, dbMessages, vectors, usedIds, upsertCalls,
                   reached, lastTurn, gc>>

\* two clients, each in the chat view of a session of its own
InitSearch ==
    /\ now = 0
    /\ LET a == Session("a", [i \in 1..MaxTopics |-> TopicAt(i)], 0)
           b == Session("b", [i \in 1..MaxTopics |-> TopicAt(i)], 0)
       IN  /\ ss = [c \in Clients |->
                      IF c = "c1"
                      THEN [FreshState EXCEPT !.pc = "chat", !.session_id = "a",
                                              !.session = a]
                      ELSE [FreshState EXCEPT !.pc = "chat", !.session_id = "b",
                                              !.session = b]]
           /\ dbSessions = save_session(save_session(<<>>, a, TRUE), b, TRUE)
    /\ dbMessages = [id \in SessionIds |-> <<>>]
    /\ vectors = <<>>
    /\ usedIds = {"a", "b"}
    /\ upsertCalls = <<>>
    /\ reached = {}
    /\ queryCalls = {}
    /\ lastTurn = [response |-> ""]
    /\ gc = GcIdle
    /\ op = OpIdle

NextSearch ==
    \/ \E c \in Clients : ChatTurn(c, {TRUE}, {TRUE}, {TRUE})
    \/ \E c \in Clients : SearchKt(c, BOOLEAN)

SpecSearch == InitSearch /\ [][NextSearch]_vars

\* C22: every record search_kt returns to a client carries the session id of that
\* client's session.
C22_SearchShowsOwnSessionOnly ==
    op.pc = "searched" => \A r \in op.results : r.session_id = op.session_id

----------------------------------------------------------------------------
(* The assistant's reply of a chat turn, for the three standard topics *)

\* lines 385-396: what the turn answers, from the index the sidebar loop left
\* before process_knowledge ran and the topics as they are after it; interrogate
\* names the topic (position from 1) interrogate is called with, 0 when it is not
\* called
Reply(topics, current_topic_idx) ==
    LET active_topic == topics[current_topic_idx + 1]
    IN  IF active_topic.is_complete /\ current_topic_idx + 1 < Len(topics)
        THEN [kind |-> "move to next", interrogate |-> current_topic_idx + 2]
        ELSE IF \A i \in 1..Len(topics) : topics[i].is_complete
        THEN [kind |-> "session complete", interrogate |-> 0]
        ELSE [kind |-> "question", interrogate |-> current_topic_idx + 1]

\* the chat input, lines 371-402, with the reply it gives
ChatTurnReply(c) ==
    /\ ss[c].pc = "chat"
    /\ Len(dbMessages[ss[c].session_id]) + 2 <= MaxMessages
    /\ \E response_str \in Responses(TopicIdsOf(ss[c].session), RenderUpdateObjects) :
          LET topics == ss[c].session.topics
              current_topic_idx == SidebarLoop(topics, Len(topics))
              positions == IndexedPositions(topics,
                               multi_topic_validate_and_score(response_str))
          IN  /\ process_knowledge(c, ss[c], response_str, [n \in positions |-> TRUE],
                                   [n \in positions |-> TRUE], TRUE)
              /\ dbMessages' =
                    save_message(
                       save_message(dbMessages, dbSessions, ss[c].session_id,
                                    "user", TRUE),
                       dbSessions', ss[c].session_id, "assistant", TRUE)
              /\ op' = [pc |-> "replied",
                        complete_before |->
                            \A i \in 1..Len(topics) : topics[i].is_complete,
                        reply |-> Reply(ss'[c].session.topics, current_topic_idx)]
    /\ UNCHANGED <<now, usedIds, queryCalls, gc>>

InitReply ==
    /\ now = 0
    /\ LET session == Session("a", InitialTopics, 0)
       IN  /\ ss = [c \in Clients |->
                      IF c = "c1"
                      THEN [FreshState EXCEPT !.pc = "chat", !.session_id = "a",
                                              !.session = session]
                      ELSE FreshState]
           /\ dbSessions = save_session(<<>>, session, TRUE)
    /\ dbMessages = [id \in SessionIds |-> <<>>]
    /\ vectors = <<>>
    /\ usedIds = {"a"}
    /\ upsertCalls = <<>>
    /\ reached = {}
    /\ queryCalls = {}
    /\ lastTurn = [response |-> ""]
    /\ gc = GcIdle
    /\ op = OpIdle

\* line 279
can_generate(topics) ==
    \A i \in 1..Len(topics) : topics[i].confidence_score >= KT_CONFIDENCE_THRESHOLD

\* the "Generate Final Summary" button, disabled unless can_generate: lines 280-294
GenerateFinalSummary(c) ==
    /\ ss[c].pc = "chat"
    /\ can_generate(ss[c].session.topics)
    /\ op' = [pc |-> "summary", client |-> c]
    /\ UNCHANGED <<now, ss, dbSessions, dbMessages, vectors>>
    /\ UNCHANGED Others

NextReply ==
    \/ \E c \in Clients : ChatTurnReply(c)
    \/ \E c \in Clients : GenerateFinalSummary(c)

SpecReply == InitReply /\ [][NextReply]_vars

\* C23: a user turn that starts with every topic of the session complete is
\* answered with the session-complete announcement, and interrogate is not called.
C23_CompleteSessionOnlyAnnounces ==
    (op.pc = "replied" /\ op.complete_before)
        => /\ op.reply.kind = "session complete"
           /\ op.reply.interrogate = 0

\* C24: the Generate Final Summary button can be pressed exactly when every topic's
\* completion flag is true; in particular it can be pressed after a turn that was
\* answered with the session-complete announcement.
C24_SummaryGatedOnCompletion ==
    \A c \in Holders :
        /\ (ENABLED GenerateFinalSummary(c))
              <=> (\A i \in 1..Len(TopicsOf(c)) : TopicsOf(c)[i].is_complete)
        /\ (op.pc = "replied" /\ op.reply.kind = "session complete")
              => ENABLED GenerateFinalSummary(c)

----------------------------------------------------------------------------
(* The provider echoing the knowledge snapshot of the extraction prompt *)

\* line 107: what the prompt shows for every topic
topics_json(session) ==
    [id \in TopicIdsOf(session) |->
        LET t == CHOOSE t \in { session.topics[i] : i \in 1..Len(session.topics) } :
                    t.id = id
        IN  [name |-> t.name, current_knowledge |-> model_dump(t.knowledge)]]

\* the update objects of a provider that returns, for the topics under keys, the
\* current_knowledge object of the prompt as it is, with the topic's present score
\* and missing sections
EchoOf(session, keys) ==
    [id \in keys |->
        LET t == CHOOSE t \in { session.topics[i] : i \in 1..Len(session.topics) } :
                    t.id = id
        IN  [knowledge |-> topics_json(session)[id].current_knowledge,
             confidence_score |-> t.confidence_score,
             missing_sections |-> t.missing_sections]]

EchoUpdate(c) ==
    /\ ss[c].pc = "chat"
    /\ \E keys \in SUBSET TopicIdsOf(ss[c].session) :
          LET response_str == JsonText(EchoOf(ss[c].session, keys))
              positions == IndexedPositions(ss[c].session.topics,
                               multi_topic_validate_and_score(response_str))
          IN  /\ process_knowledge(c, ss[c], response_str, [n \in positions |-> TRUE],
                                   [n \in positions |-> TRUE], TRUE)
              /\ op' = [pc |-> "echoed", client |-> c, keys |-> keys,
                        topics |-> ss[c].session.topics]
    /\ UNCHANGED <<now, dbMessages, usedIds, queryCalls, gc>>

NextEcho ==
    \/ \E c \in Clients : TurnBetweenRenders(c)
    \/ \E c \in Clients : EchoUpdate(c)

SpecEcho == InitKnowledge /\ [][NextEcho]_vars

\* C25: when the provider returns for a topic exactly the current_knowledge object
\* of the prompt, the topic's knowledge after process_knowledge equals its knowledge
\* before the call in all eight fields.
C25_EchoKeepsKnowledge ==
    op.pc = "echoed" =>
        \A i \in 1..Len(op.topics) :
            op.topics[i].id \in op.keys =>
                \A f \in KnowledgeFields :
                    ss[op.client].session.topics[i].knowledge[f]
                        = op.topics[i].knowledge[f]

====
